---- MODULE Spec2Model ----
(***************************************************************************)
(* jaxOS: the intent parser (kernel/intent_parser.py), the kernel loop     *)
(* (kernel/main.py) and the Tk render bridge (ui/tk_renderer.py).          *)
(***************************************************************************)
EXTENDS Integers, Sequences, FiniteSets, TLC

(***************************************************************************)
(* Bounds of the model.                                                    *)
(***************************************************************************)
\* longest raw reply, in tokens, among the exhaustively enumerated replies
MaxRawLen == 4
\* most keys of a params map (or of the top-level extra fields) of a reply
MaxParamKeys == 2
\* most input lines submitted with Return in one run
MaxLines == 2
\* most characters of the input buffer
MaxInputLen == 4
\* most draw callbacks pending on the Tk event loop
MaxPending == 2
\* most build_ui batches in one app's widget list, and most lines logged,
\* when launch_app and close_app are called directly
MaxBatches == 2
MaxSessionLines == 2

VARIABLES
  llm_response,   \* IntentParser.parse: the raw reply handed to parse
  intent,         \* IntentParser.parse: the dict parse returned
  renorm,         \* lines 47-65 run once more on the normalized dict
  ppc,            \* "reply", "parsed" or "renormalized"
  \* NeuralKernel
  wpc,              \* position of the worker thread in kernel_loop
  running,          \* self.running
  system_log_lines, \* self.system_log_lines
  app_log_lines,    \* self.app_log_lines
  active_app,       \* self.active_app: a key of self.apps, or NoApp
  is_active,        \* App.is_active of each app object
  app_widgets,      \* App.widgets of each app object
  content_start_y,  \* App.content_start_y of each app object
  files,            \* the files table of system.db: path -> content
  code_buffer,      \* CodeStudio.code_buffer of each app object
  user_input,       \* kernel_loop's user_input
  \* TkRenderer
  input_queue,      \* self.input_queue
  current_input,    \* self.current_input, a sequence of characters
  widgets,          \* self.widgets: OwnList, or the app whose list it is
  last_header,      \* self.last_header
  last_logs,        \* self.last_logs
  last_prompt,      \* self.last_prompt
  last_input,       \* self.last_input
  last_start_y,     \* self.last_start_y
  mainloop,         \* whether root.mainloop() is still running
  submitted,        \* the lines put on input_queue so far, oldest first
  \* the render bridge, statement by statement
  w_pc,             \* worker in render_screen: 0 outside, 1..5 the next
                    \* assignment of lines 180-184, 6 at root.after
  w_frame,          \* the arguments of the worker's render_screen call
  dpc,              \* display thread: "prestart", "idle", or its position
                    \* in _blink_cursor
  d_n,              \* the next read or assignment of the display thread
  d_frame,          \* what render_last_frame has read so far
  cursor_visible,   \* self.cursor_visible
  blink_timers,     \* pending root.after(500, self._blink_cursor) timers
  draws,            \* pending root.after(0, _draw) callbacks, oldest first
  drawn,            \* the frame the last _draw put on the canvas
  requested,        \* the frames render_ui has passed to render_screen
  \* calls observed
  taken,            \* the lines input_queue.get has returned, oldest first
  log_message,      \* the argument of the NeuralKernel.log call checked alone
  app_call,         \* the launch_app or close_app call made directly last
  \* NeuralKernel.log, statement by statement, on each thread
  log_pc,           \* per thread: "idle", "append" (line 103) or "trim" (106)
  log_rest,         \* per thread: the lines of the message still to append
  run_left,         \* messages run_code on the display thread has yet to log
  runs              \* the number of clicks on the RUN button so far

pvars == <<llm_response, intent, renorm, ppc>>
kvars ==
  <<wpc, running, system_log_lines, app_log_lines, active_app, is_active,
    app_widgets, content_start_y, files, code_buffer, user_input>>
rvars ==
  <<input_queue, current_input, widgets, last_header, last_logs,
    last_prompt, last_input, last_start_y, mainloop, submitted>>
bvars ==
  <<w_pc, w_frame, dpc, d_n, d_frame, cursor_visible, blink_timers, draws,
    drawn, requested>>
hvars == <<taken, log_message, app_call>>
lvars == <<log_pc, log_rest, run_left, runs>>
vars == <<pvars, kvars, rvars, bvars, hvars, lvars>>

(***************************************************************************)
(* JSON values, as json.loads builds them.  A dict is a function from its  *)
(* keys (strings) to values.                                               *)
(***************************************************************************)
JStr(s) == [t |-> "str", s |-> s]
JNum(n) == [t |-> "num", n |-> n]
JNull == [t |-> "null"]
JList(l) == [t |-> "list", l |-> l]
JMap(m) == [t |-> "map", m |-> m]
EmptyDict == [k \in {} |-> JNull]

Has(d, k) == k \in DOMAIN d
Put(d, k, v) == [x \in (DOMAIN d) \cup {k} |-> IF x = k THEN v ELSE d[x]]
Without(d, ks) == [x \in (DOMAIN d) \ ks |-> d[x]]

\* Python's str(v) of a loaded scalar, as the f-string of line 68 formats it
PyStr(v) ==
  CASE v.t = "str" -> v.s
    [] v.t = "num" -> ToString(v.n)
    [] OTHER -> "None"

\* sub in s, for the strings of the model: the only proper containment among
\* them is "content" in "file_content"
IsSubstr(sub, s) == sub = s \/ (sub = "content" /\ s = "file_content")

\* Python's `k in v`: defined for dict, list and str, TypeError otherwise
Iterable(v) == v.t \in {"map", "list", "str"}
PyIn(k, v) ==
  CASE v.t = "map" -> k \in DOMAIN v.m
    [] v.t = "list" -> \E i \in DOMAIN v.l : v.l[i] = k
    [] v.t = "str" -> IsSubstr(k, v.s)
    [] OTHER -> FALSE

(***************************************************************************)
(* Raw model replies: a reply is a sequence of whitespace-separated        *)
(* tokens.  "tick" is ```, "tickjson" is ```json, "lb" and "rb" are lone   *)
(* braces, "prose" is a word, "val" is the JSON text of a complete value   *)
(* and "trunc" is the text of an object without nested braces, cut before  *)
(* its closing brace.                                                      *)
(***************************************************************************)
Tok(k) == [k |-> k]
Val(v) == [k |-> "val", v |-> v]
Trunc(v) == [k |-> "trunc", v |-> v]

HasTicks(tok) == tok.k \in {"tick", "tickjson"}
HasOpenBrace(tok) ==
  \/ tok.k \in {"lb", "trunc"}
  \/ tok.k = "val" /\ tok.v.t = "map"
HasCloseBrace(tok) ==
  \/ tok.k = "rb"
  \/ tok.k = "val" /\ tok.v.t = "map"

First(S) == IF S = {} THEN 0 ELSE CHOOSE i \in S : \A j \in S : i <= j
Last(S) == IF S = {} THEN 0 ELSE CHOOSE i \in S : \A j \in S : i >= j

\* the literal "{}" of line 100
EmptyObjectText == <<Tok("lb"), Tok("rb")>>

\* lines 94-100: the span from the first { to the last }
BraceSpan(text) ==
  LET start_idx == First({i \in DOMAIN text : HasOpenBrace(text[i])})
      end_idx == Last({i \in DOMAIN text : HasCloseBrace(text[i])})
  IN IF start_idx # 0 /\ end_idx # 0 /\ end_idx >= start_idx
     THEN SubSeq(text, start_idx, end_idx)
     ELSE EmptyObjectText

\* FenceOpen without the preference for a ```json marker
FenceOpenAnyFirst(text) == First({i \in DOMAIN text : HasTicks(text[i])})

\* lines 82-91: the first ```json marker if there is one, else the first ```
FenceOpen(text) ==
  LET tagged == First({i \in DOMAIN text : text[i].k = "tickjson"})
  IN IF tagged # 0 THEN tagged
     ELSE First({i \in DOMAIN text : HasTicks(text[i])})

\* lines 84, 89: text.find("```", start)
FenceClose(text, open) ==
  First({i \in DOMAIN text : i > open /\ HasTicks(text[i])})

ExtractJson(text) ==
  LET open == FenceOpen(text)
      close == FenceClose(text, open)
  IN IF open # 0 /\ close # 0
     THEN SubSeq(text, open + 1, close - 1)
     ELSE BraceSpan(text)

\* json.loads: [ok |-> FALSE] stands for JSONDecodeError
JsonLoads(c) ==
  IF Len(c) = 1 /\ c[1].k = "val" THEN [ok |-> TRUE, v |-> c[1].v]
  ELSE IF c = EmptyObjectText THEN [ok |-> TRUE, v |-> JMap(EmptyDict)]
  ELSE IF Len(c) = 2 /\ c[1].k = "trunc" /\ c[2].k = "rb"
       THEN [ok |-> TRUE, v |-> c[1].v]
  ELSE [ok |-> FALSE, v |-> JNull]

(***************************************************************************)
(* IntentParser                                                            *)
(***************************************************************************)
valid_actions ==
  {"create_file", "read_file", "delete_file", "list_files",
   "system_status", "browse", "unknown"}

\* an unknown intent that launches the calculator all the same
UnknownLaunches(reason) ==
  [action |-> JStr("launch_app"),
   params |-> JMap([name |-> JStr("calculator")])]

Unknown(reason) == [action |-> JStr("unknown"), reason |-> JStr(reason)]

\* type(v).__name__ of a loaded value
TypeName(v) ==
  CASE v.t = "str" -> "str"
    [] v.t = "num" -> "int"
    [] v.t = "null" -> "NoneType"
    [] v.t = "list" -> "list"
    [] OTHER -> "dict"
\* str(e) of the AttributeError of v.attr
NoAttribute(v, attr) ==
  "'" \o TypeName(v) \o "' object has no attribute '" \o attr \o "'"

\* a raw response that is no text: the value v of the reply's response field
NonText(v) == <<[k |-> "nontext", v |-> v]>>
IsNonText(text) == Len(text) = 1 /\ text[1].k = "nontext"

\* str(e) of the exceptions the normalization can raise
ExcNotIterable == "argument is not iterable"
ExcBadIndex == "indices must be integers"
ExcNoItems == "object has no attribute 'items'"
ExcUnhashable == "unhashable type"

\* CopyIntent that never copies
CopyIntentNever(d) == d

\* lines 48-49
CopyIntent(d) ==
  IF Has(d, "intent") /\ ~Has(d, "action")
  THEN Put(d, "action", d["intent"])
  ELSE d

\* SynthParams without the test of line 55
SynthParamsAlways(d) ==
  Put(d, "params", JMap(Without(d, {"action", "intent"})))

\* SynthParams that leaves out action only
SynthParamsKeepsIntent(d) ==
  IF ~Has(d, "params")
  THEN Put(d, "params", JMap(Without(d, {"action"})))
  ELSE d

\* lines 55-57
SynthParams(d) ==
  IF ~Has(d, "params")
  THEN Put(d, "params", JMap(Without(d, {"action", "intent"})))
  ELSE d

\* FillAlias without the test that the canonical key is absent
FillAliasOverwrite(p, alias, canonical) ==
  IF Has(p, alias) THEN Put(p, canonical, p[alias]) ELSE p

\* one line pair of lines 60-65 on a params dict
FillAlias(p, alias, canonical) ==
  IF Has(p, alias) /\ ~Has(p, canonical)
  THEN Put(p, canonical, p[alias])
  ELSE p

\* lines 60-65 on a params dict
AliasFill(p) ==
  FillAlias(FillAlias(FillAlias(p, "filename", "path"),
                      "file_content", "content"),
            "website", "url")

\* lines 60-65 on params that is a list or a str: the membership tests work,
\* the subscript of a taken branch raises TypeError
AliasRaises(pv) ==
  \/ PyIn("filename", pv) /\ ~PyIn("path", pv)
  \/ PyIn("file_content", pv) /\ ~PyIn("content", pv)
  \/ PyIn("website", pv) /\ ~PyIn("url", pv)

\* lines 47-65 for a loaded value v: [ret |-> TRUE, d] when parse returns d
\* there (line 52, or an exception handled at line 75), else the normalized
\* dict in d
Normalize(v) ==
  IF ~Iterable(v) THEN [ret |-> TRUE, d |-> Unknown(ExcNotIterable)]
  ELSE IF v.t # "map"
  THEN IF PyIn("intent", v) /\ ~PyIn("action", v)
       THEN [ret |-> TRUE, d |-> Unknown(ExcBadIndex)]
       ELSE IF ~PyIn("action", v)
       THEN [ret |-> TRUE, d |-> Unknown("Missing 'action' field")]
       ELSE IF ~PyIn("params", v)
       THEN [ret |-> TRUE, d |-> Unknown(ExcNoItems)]
       ELSE [ret |-> TRUE, d |-> Unknown(ExcBadIndex)]
  ELSE LET d1 == CopyIntent(v.m)
       IN IF ~Has(d1, "action")
          THEN [ret |-> TRUE, d |-> Unknown("Missing 'action' field")]
          ELSE LET d2 == SynthParams(d1)
                   pv == d2["params"]
               IN IF ~Iterable(pv)
                  THEN [ret |-> TRUE, d |-> Unknown(ExcNotIterable)]
                  ELSE IF pv.t # "map"
                  THEN IF AliasRaises(pv)
                       THEN [ret |-> TRUE, d |-> Unknown(ExcBadIndex)]
                       ELSE [ret |-> FALSE, d |-> d2]
                  ELSE [ret |-> FALSE,
                        d |-> Put(d2, "params", JMap(AliasFill(pv.m)))]

\* Validate without the membership test of line 67
ValidateAnything(d) == d

\* lines 67-70
Validate(d) ==
  LET a == d["action"]
  IN IF a.t \in {"list", "map"} THEN Unknown(ExcUnhashable)
     ELSE IF ~(a.t = "str" /\ a.s \in valid_actions)
     THEN Unknown("Invalid action: " \o PyStr(a))
     ELSE d

\* parse without the handler of line 72: the decode error leaves parse
parseUncaught(text) ==
  LET loaded == JsonLoads(ExtractJson(text))
  IN IF ~loaded.ok THEN [raised |-> JStr("JSONDecodeError")]
     ELSE LET n == Normalize(loaded.v)
          IN IF n.ret THEN n.d ELSE Validate(n.d)

\* IntentParser.parse; text.strip() of line 81 raises on a value that is no
\* text, and line 74 catches it
parse(text) ==
  LET loaded == JsonLoads(ExtractJson(text))
  IN IF IsNonText(text) THEN Unknown(NoAttribute(text[1].v, "strip"))
     ELSE IF ~loaded.ok THEN Unknown("Malformed JSON response")
     ELSE LET n == Normalize(loaded.v)
          IN IF n.ret THEN n.d ELSE Validate(n.d)

(***************************************************************************)
(* NeuralKernel (kernel/main.py), the apps (apps/base.py) and the storage  *)
(* (fs/db.py).  A method is an operator from the kernel's state, a record, *)
(* to the state it leaves; the worker's actions below apply them.          *)
(***************************************************************************)
LogCap == 15
DefaultStartY == 30
CodeStudioStartY == 130
CalculatorStartY == 300

NoApp == "none"
\* the worker thread of kernel_loop and the display thread of the event loop
Threads == {"worker", "display"}
OwnList == "own"
Apps == {"code_studio", "python", "calculator", "calc"}
IsCodeStudio(a) == a \in {"code_studio", "python"}
\* self.active_app.__class__.__name__.upper()
ClassName(a) == IF IsCodeStudio(a) THEN "CODESTUDIO" ELSE "CALCULATOR"

\* "".join(cs)
RECURSIVE Str(_)
Str(cs) == IF cs = <<>> THEN "" ELSE Head(cs) \o Str(Tail(cs))

\* not user_input.strip()
IsBlank(cs) == \A i \in DOMAIN cs : cs[i] = " "

LowerChar(c) ==
  CASE c = "E" -> "e" [] c = "X" -> "x" [] c = "I" -> "i" [] c = "T" -> "t"
    [] c = "Q" -> "q" [] c = "U" -> "u"
    [] OTHER -> c
\* user_input.lower()
Lower(cs) == [i \in DOMAIN cs |-> LowerChar(cs[i])]

\* the state the kernel's methods work on
KernelState ==
  [sys |-> system_log_lines, app |-> app_log_lines, active |-> active_app,
   is_active |-> is_active, app_widgets |-> app_widgets,
   start_y |-> content_start_y, files |-> files, widgets |-> widgets,
   frame |-> [header |-> last_header, logs |-> last_logs,
              prompt |-> last_prompt, input |-> last_input,
              start_y |-> last_start_y],
   code_buffer |-> code_buffer, cur |-> current_input,
   running |-> running, mainloop |-> mainloop, raised |-> FALSE,
   exc |-> ""]

\* a buffer cut at the wrong end
TrimKeepsOldest(buf) ==
  IF Len(buf) > LogCap THEN SubSeq(buf, 1, LogCap) ELSE buf

\* lines 105-107
Trim(buf) ==
  IF Len(buf) > LogCap
  THEN SubSeq(buf, Len(buf) - LogCap + 1, Len(buf))
  ELSE buf

\* NeuralKernel.log; message is message.split('\n')
log(k, message) ==
  IF k.active # NoApp
  THEN [k EXCEPT !.app = Trim(@ \o message)]
  ELSE [k EXCEPT !.sys = Trim(@ \o message)]

\* TkRenderer.render_screen, lines 180-184, taken as one step
render_screen(k, header_lines, log_lines, input_prompt, cur, start_y) ==
  [k EXCEPT !.frame = [header |-> header_lines, logs |-> log_lines,
                       prompt |-> input_prompt, input |-> cur,
                       start_y |-> start_y]]

\* a render_ui that requests nothing
render_uiNothing(k, show_prompt) == k

\* NeuralKernel.render_ui
render_ui(k, show_prompt) ==
  IF k.active # NoApp
  THEN render_screen(k, <<"--- " \o ClassName(k.active) \o " ---">>, k.app,
                     IF show_prompt THEN "CODE> " ELSE "", k.cur,
                     k.start_y[k.active])
  ELSE render_screen(k, <<"jaxOS v1.0", "--------------">>, k.sys,
                     IF show_prompt THEN "USER@NEURO> " ELSE "", k.cur,
                     DefaultStartY)

\* the widgets one build_ui call appends, as one batch named after the class
Batch(a) == <<ClassName(a)>>

\* a start hook that builds the widgets twice
on_startTwice(k, a) ==
  [k EXCEPT !.is_active[a] = TRUE,
            !.app_widgets[a] = @ \o Batch(a) \o Batch(a),
            !.start_y[a] = IF IsCodeStudio(a) THEN CodeStudioStartY
                           ELSE CalculatorStartY,
            !.code_buffer[a] = IF IsCodeStudio(a) THEN <<>> ELSE @]

\* App.on_start with the build_ui of the app's class
on_start(k, a) ==
  [k EXCEPT !.is_active[a] = TRUE,
            !.app_widgets[a] = @ \o Batch(a),
            !.start_y[a] = IF IsCodeStudio(a) THEN CodeStudioStartY
                           ELSE CalculatorStartY,
            !.code_buffer[a] = IF IsCodeStudio(a) THEN <<>> ELSE @]

\* a stop hook that keeps the widgets
on_stopKeepsWidgets(k, a) == [k EXCEPT !.is_active[a] = FALSE]

\* App.on_stop
on_stop(k, a) ==
  [k EXCEPT !.is_active[a] = FALSE, !.app_widgets[a] = <<>>]

\* a launch_app that does nothing at all
launch_appSilent(k, app_name) == k

\* NeuralKernel.launch_app
launch_app(k, app_name) ==
  IF app_name \in Apps
  THEN LET k1 == [k EXCEPT !.app = <<>>, !.active = app_name]
           k2 == on_start(k1, app_name)
           k3 == [k2 EXCEPT !.widgets = app_name]
       IN render_ui(k3, TRUE)
  ELSE log(k, <<"App '" \o app_name \o "' not found.">>)

\* NeuralKernel.close_app
close_app(k) ==
  IF k.active # NoApp
  THEN LET k1 == on_stop(k, k.active)
           k2 == [k1 EXCEPT !.active = NoApp, !.widgets = OwnList]
       IN render_ui(log(k2, <<"App closed.">>), TRUE)
  ELSE k

\* d.get(key, default)
Get(d, key, default) == IF Has(d, key) THEN d[key] ELSE default

\* Database.write_file: sqlite3 binds text, numbers and None; the path column
\* is NOT NULL; a failure is caught and answered False
CanBind(v) == v.t \in {"str", "num", "null"}
write_ok(path, content) ==
  path.t \in {"str", "num"} /\ CanBind(content)
\* a write that stores the row without its content
write_fileDropsContent(fs, path, content) ==
  [x \in (DOMAIN fs) \cup {PyStr(path)} |->
     IF x = PyStr(path) THEN JStr("") ELSE fs[x]]
\* the row written; the content column is TEXT, so a number is stored as
\* its text
write_file(fs, path, content) ==
  [x \in (DOMAIN fs) \cup {PyStr(path)} |->
     IF x = PyStr(path)
     THEN (IF content.t = "num" THEN JStr(PyStr(content)) ELSE content)
     ELSE fs[x]]

\* Database.delete_file: rowcount > 0, and the table afterwards
\* a delete that answers True for any path
delete_okAlways(fs, path) == TRUE
delete_ok(fs, path) == CanBind(path) /\ path.t # "null" /\ PyStr(path) \in DOMAIN fs
delete_file(fs, path) == [x \in (DOMAIN fs) \ {PyStr(path)} |-> fs[x]]

\* Database.read_file: the row found, if any
read_found(fs, path) == path.t \in {"str", "num"} /\ PyStr(path) \in DOMAIN fs

\* files[:5] of list_files, in the table's order
RECURSIVE Listing(_)
Listing(paths) ==
  IF paths = {} THEN <<>>
  ELSE LET f == CHOOSE x \in paths : TRUE
       IN <<"- " \o f>> \o Listing(paths \ {f})

\* params.get("name", "").lower().replace(" ", "_") for the model's names
AppKey(name) ==
  CASE name = "Calculator" -> "calculator"
    [] name = "code studio" -> "code_studio"
    [] OTHER -> name

\* the first words of str(e) when sqlite3 cannot bind a list or a dict
BindError == "Error binding parameter"

\* an exception leaves the method; exc is str(e)
Raise(k, exc) == [k EXCEPT !.raised = TRUE, !.exc = exc]

\* execute_syscall without its render_ui calls
execute_syscallUnrendered(k, i, summary) ==
  log(k, <<"Exec: " \o PyStr(Get(i, "action", JNull))>>)

\* NeuralKernel.execute_syscall; summary is what fetch_and_summarize returns
execute_syscall(k, i, summary) ==
  LET action == Get(i, "action", JNull)
      params == Get(i, "params", JMap(EmptyDict))
      k0 == render_ui(log(k, <<"Exec: " \o PyStr(action)>>), FALSE)
      path == Get(params.m, "path", JNull)
  IN IF action = JStr("launch_app")
     THEN IF params.t # "map" THEN Raise(k0, NoAttribute(params, "get"))
          ELSE IF Get(params.m, "name", JStr("")).t # "str"
          THEN Raise(k0, NoAttribute(Get(params.m, "name", JStr("")),
                                     "lower"))
          ELSE launch_app(k0, AppKey(Get(params.m, "name", JStr("")).s))
     ELSE IF action \in {JStr("create_file"), JStr("read_file"),
                         JStr("delete_file"), JStr("browse")}
             /\ params.t # "map"
     THEN Raise(k0, NoAttribute(params, "get"))
     ELSE IF action = JStr("create_file")
     THEN LET content == Get(params.m, "content", JStr(""))
          IN IF write_ok(path, content)
             THEN render_ui(
                    log([k0 EXCEPT !.files = write_file(@, path, content)],
                        <<"Created " \o PyStr(path)>>), TRUE)
             ELSE render_ui(log(k0, <<"Error creating " \o PyStr(path)>>),
                            TRUE)
     ELSE IF action = JStr("read_file")
     THEN IF ~CanBind(path) THEN Raise(k0, BindError)
          ELSE IF read_found(k0.files, path)
                  /\ k0.files[PyStr(path)].t # "null"
          THEN render_ui(
                 log(log(k0, <<"Read " \o PyStr(path)>>),
                     <<k0.files[PyStr(path)].s>>), TRUE)
          ELSE render_ui(log(k0, <<"Error: " \o PyStr(path) \o " 404">>),
                         TRUE)
     ELSE IF action = JStr("delete_file")
     THEN IF delete_ok(k0.files, path)
          THEN render_ui(
                 log([k0 EXCEPT !.files = delete_file(@, path)],
                     <<"Deleted " \o PyStr(path)>>), TRUE)
          ELSE render_ui(log(k0, <<"Error: " \o PyStr(path) \o " 404">>),
                         TRUE)
     ELSE IF action = JStr("list_files")
     THEN render_ui(
            log(log(k0, <<"Files: " \o ToString(Cardinality(DOMAIN k0.files))>>),
                SubSeq(Listing(DOMAIN k0.files), 1,
                       IF Cardinality(DOMAIN k0.files) < 5
                       THEN Cardinality(DOMAIN k0.files) ELSE 5)), TRUE)
     ELSE IF action = JStr("system_status")
     THEN render_ui(
            log(k0, <<"RAM: 16KB Used", "Cortex: gemma3:12b",
                      "Storage: SQLite Persistent">>), TRUE)
     ELSE IF action = JStr("browse")
     THEN LET url == Get(params.m, "url", JNull)
              k1 == render_ui(log(k0, <<"Browsing: " \o PyStr(url) \o "...">>),
                              FALSE)
          IN render_ui(
               log(log(log(k1, <<"--- PAGE SUMMARY ---">>), summary),
                   <<"--------------------">>), TRUE)
     ELSE IF action = JStr("unknown")
     THEN render_ui(log(k0, <<"Unknown Intent">>), TRUE)
     ELSE render_ui(k0, TRUE)

NoIntent == EmptyDict
NoRenorm == [ret |-> TRUE, d |-> EmptyDict]

UpperChar(c) ==
  CASE c = "e" -> "E" [] c = "x" -> "X" [] c = "i" -> "I" [] c = "t" -> "T"
    [] c = "l" -> "L" [] c = "s" -> "S" [] c = "h" -> "H" [] c = "u" -> "U"
    [] c = "d" -> "D" [] c = "o" -> "O" [] c = "w" -> "W" [] c = "n" -> "N"
    [] OTHER -> c
\* user_input.upper()
Upper(cs) == [i \in DOMAIN cs |-> UpperChar(cs[i])]

\* CodeStudio.run_code; output is what the executed buffer printed, or the
\* traceback
run_code(k, output) ==
  log(log(log(k, <<"--- EXECUTING ---">>), output), <<"-----------------">>)

\* a handler that drops the line
on_inputIgnored(k, line, output) == k

\* a handler that takes an exit word as the order to shut down
on_inputShutsDown(k, line, output) ==
  IF Lower(line) \in {<<"e", "x", "i", "t">>, <<"q", "u", "i", "t">>,
                      <<"s", "h", "u", "t", "d", "o", "w", "n">>}
  THEN [k EXCEPT !.running = FALSE, !.mainloop = FALSE]
  ELSE k

\* App.on_input of the active app's class.  None of the model's characters
\* is a calculator key, so Calculator.on_input clicks no button.
on_input(k, line, output) ==
  IF IsCodeStudio(k.active)
  THEN IF Upper(line) = <<"R", "U", "N">> THEN run_code(k, output)
       ELSE IF Upper(line) = <<"E", "X", "I", "T">> THEN close_app(k)
       ELSE IF Upper(line) = <<"C", "L", "E", "A", "R">>
       THEN log([k EXCEPT !.code_buffer[k.active] = <<>>],
                <<"Buffer cleared.">>)
       ELSE LET k1 == [k EXCEPT !.code_buffer[k.active] = Append(@, line)]
            IN log(k1, <<" " \o ToString(Len(k1.code_buffer[k.active]))
                           \o ": " \o Str(line)>>)
  ELSE IF Lower(line) = <<"e", "x", "i", "t">> THEN close_app(k)
       ELSE k

(***************************************************************************)
(* The worker thread: NeuralKernel.kernel_loop.                            *)
(***************************************************************************)
Assign(k) ==
  /\ system_log_lines' = k.sys
  /\ app_log_lines' = k.app
  /\ active_app' = k.active
  /\ is_active' = k.is_active
  /\ app_widgets' = k.app_widgets
  /\ content_start_y' = k.start_y
  /\ files' = k.files
  /\ code_buffer' = k.code_buffer
  /\ widgets' = k.widgets
  /\ last_header' = k.frame.header
  /\ last_logs' = k.frame.logs
  /\ last_prompt' = k.frame.prompt
  /\ last_input' = k.frame.input
  /\ last_start_y' = k.frame.start_y
  /\ running' = k.running
  /\ mainloop' = k.mainloop

\* an exception that is not caught: it ends kernel_loop
PanicEndsLoop(k) == [k EXCEPT !.raised = FALSE, !.exc = "", !.running = FALSE]

\* lines 316-318
Panic(k) ==
  render_ui(log([k EXCEPT !.raised = FALSE, !.exc = ""],
                <<"Panic: " \o k.exc>>), TRUE)

\* what _check_ollama meets: status 200, another status, an exception
Probes == {"online", "status", "refused"}

\* a boot that gives up when the probe fails
bootNeedsCortex(k, probe) ==
  render_ui(log([k EXCEPT !.running = (probe = "online")],
                <<"System Ready.">>), probe = "online")

\* NeuralKernel.boot with _check_ollama; probe is what the probe meets
boot(k, probe) ==
  LET k1 == render_ui(log(k, <<"jaxOS v1.0 Booting...">>), FALSE)
      k2 == render_ui(log(k1, <<"[*] Init Neural Shim...">>), FALSE)
      k3 == IF probe = "online" THEN log(k2, <<"[+] Cortex Online.">>)
            ELSE IF probe = "status" THEN log(k2, <<"[-] Cortex Offline.">>)
            ELSE log(log(k2, <<"[!] Cortex Connection Error">>),
                     <<"[-] Cortex Offline.">>)
      k4 == render_ui(log(k3, <<"[*] Mounting VFS...">>), FALSE)
  IN render_ui(log(k4, <<"System Ready.">>), TRUE)

\* queue.Queue of TkRenderer.input_queue: put at the back, get from the front
putFront(q, item) == <<item>> \o q
put(q, item) == Append(q, item)
get(q) == [item |-> Head(q), rest |-> Tail(q)]

\* line 266
Boot ==
  /\ wpc = "boot1"
  /\ \E probe \in Probes : Assign(boot(KernelState, probe))
  /\ wpc' = "loop"
  /\ UNCHANGED <<hvars, lvars, pvars, bvars, user_input, input_queue, current_input, submitted>>

\* lines 268-271
LoopTop ==
  /\ wpc = "loop"
  /\ IF running
     THEN Assign(render_ui(KernelState, TRUE)) /\ wpc' = "poll"
     ELSE Assign(KernelState) /\ wpc' = "done"
  /\ UNCHANGED <<hvars, lvars, pvars, bvars, user_input, input_queue, current_input, submitted>>

\* lines 274-278
Poll ==
  /\ wpc = "poll"
  /\ IF input_queue # <<>>
     THEN /\ user_input' = get(input_queue).item
          /\ input_queue' = get(input_queue).rest
          /\ taken' = Append(taken, get(input_queue).item)
          /\ wpc' = "route"
     ELSE /\ wpc' = "loop"
          /\ UNCHANGED <<user_input, input_queue, taken>>
  /\ Assign(KernelState)
  /\ UNCHANGED <<lvars, log_message, app_call, pvars, bvars, current_input, submitted>>

\* line 292
ExitWords ==
  {<<"e", "x", "i", "t">>, <<"q", "u", "i", "t">>,
   <<"s", "h", "u", "t", "d", "o", "w", "n">>}

\* a stop that leaves the event loop running
stopIgnored(k) == k

\* TkRenderer.stop
stop(k) == [k EXCEPT !.mainloop = FALSE]

\* lines 280-301; output is what a run of the code buffer prints
Route ==
  /\ wpc = "route"
  /\ \E output \in {<<"(No Output)">>} :
       IF IsBlank(user_input)
       THEN Assign(KernelState) /\ wpc' = "loop"
       ELSE IF active_app # NoApp
       THEN /\ Assign(render_ui(on_input(KernelState, user_input, output),
                                TRUE))
            /\ wpc' = "loop"
       ELSE LET k1 == log(KernelState,
                          <<"USER@NEURO> " \o Str(user_input)>>)
            IN IF Lower(user_input) \in ExitWords
               THEN /\ Assign(stop([render_ui(log(k1, <<"Shutting down...">>),
                                              FALSE)
                                      EXCEPT !.running = FALSE]))
                    /\ wpc' = "done"
               ELSE /\ Assign(render_ui(log(k1, <<"Thinking...">>), FALSE))
                    /\ wpc' = "infer"
  /\ UNCHANGED <<hvars, lvars, pvars, bvars, user_input, input_queue, current_input, submitted>>

\* lines 306-309
DropThinking(k) ==
  IF k.active # NoApp
  THEN IF k.app # <<>> /\ k.app[Len(k.app)] = "Thinking..."
       THEN [k EXCEPT !.app = SubSeq(@, 1, Len(@) - 1)] ELSE k
  ELSE IF k.sys # <<>> /\ k.sys[Len(k.sys)] = "Thinking..."
       THEN [k EXCEPT !.sys = SubSeq(@, 1, Len(@) - 1)] ELSE k

SampleFile == JStr("a.txt")
\* a path no reply creates
MissingFile == JStr("missing.txt")
Command(action, params) ==
  <<Val(JMap([action |-> JStr(action), params |-> JMap(params)]))>>

\* what the inference service answers in the model
KernelReplies ==
  {Command("launch_app", [name |-> JStr("calculator")]),
   Command("create_file", [path |-> SampleFile, content |-> JStr("hi")]),
   Command("create_file", [path |-> SampleFile, content |-> JNull]),
   Command("read_file", [path |-> SampleFile]),
   Command("delete_file", [path |-> SampleFile]),
   Command("delete_file", [path |-> MissingFile]),
   Command("list_files", EmptyDict),
   <<Val(JMap([action |-> JStr("read_file"), params |-> JStr("a.txt")]))>>,
   <<Tok("prose")>>,
   NonText(JNum(5))}

\* lines 303-309: _llm_inference (lines 159-176) answers with the reply's
\* response field, or with "{}" when the reply has none, or fails (no
\* connection, a body that is no JSON object), logs the error and answers "{}"
Infer ==
  /\ wpc = "infer"
  /\ \/ /\ llm_response' \in KernelReplies \cup {EmptyObjectText}
        /\ Assign(DropThinking(KernelState))
     \/ /\ llm_response' = EmptyObjectText
        /\ Assign(DropThinking(log(KernelState, <<"[!] Inference Error">>)))
  /\ wpc' = "decode"
  /\ UNCHANGED <<hvars, lvars, bvars, intent, renorm, ppc, user_input, input_queue, current_input,
                 submitted>>

\* line 311
Decode ==
  /\ wpc = "decode"
  /\ intent' = parse(llm_response)
  /\ wpc' = "dispatch"
  /\ Assign(KernelState)
  /\ UNCHANGED <<hvars, lvars, bvars, llm_response, renorm, ppc, user_input, input_queue,
                 current_input, submitted>>

Summaries == {<<"* headline">>}

\* line 312, and lines 316-318 when execute_syscall raises
Dispatch ==
  /\ wpc = "dispatch"
  /\ \E summary \in Summaries :
       LET k1 == execute_syscall(KernelState, intent, summary)
       IN Assign(IF k1.raised THEN Panic(k1) ELSE k1)
  /\ wpc' = "cmd_done"
  /\ UNCHANGED <<hvars, lvars, pvars, bvars, user_input, input_queue, current_input, submitted>>

\* the end of the iteration, back to line 268
EndIteration ==
  /\ wpc = "cmd_done"
  /\ wpc' = "loop"
  /\ Assign(KernelState)
  /\ UNCHANGED <<hvars, lvars, pvars, bvars, user_input, input_queue, current_input, submitted>>

(***************************************************************************)
(* The display thread: the key handlers of TkRenderer.                     *)
(***************************************************************************)
\* what the clipboard holds in the model: a command, the exit words, blanks
ClipTexts ==
  {<<"l", "i", "s", "t">>, <<"E", "x", "i", "t">>, <<"Q", "U", "I", "T">>,
   <<"s", "h", "u", "t", "d", "o", "w", "n">>, <<" ", " ">>}

\* on_key, lines 105-107
OnKeyReturn ==
  /\ mainloop
  /\ Len(submitted) < MaxLines
  /\ input_queue' = put(input_queue, current_input)
  /\ current_input' = <<>>
  /\ submitted' = Append(submitted, current_input)
  /\ UNCHANGED <<hvars, lvars, pvars, kvars, bvars, widgets, last_header, last_logs, last_prompt,
                 last_input, last_start_y, mainloop>>

\* on_paste; the line is capped at MaxInputLen once it holds something
OnPaste ==
  /\ mainloop
  /\ \E text \in ClipTexts :
       /\ current_input = <<>> \/ Len(current_input) + Len(text) <= MaxInputLen
       /\ current_input' = current_input \o text
  /\ UNCHANGED <<hvars, lvars, pvars, kvars, bvars, input_queue, widgets, last_header, last_logs,
                 last_prompt, last_input, last_start_y, mainloop, submitted>>

\* the frame of TkRenderer.__init__, lines 72-75, drawn by its _blink_cursor
InitialFrame ==
  [header |-> <<>>, logs |-> <<>>, prompt |-> "", input |-> <<>>,
   start_y |-> DefaultStartY]

\* the state NeuralKernel.__init__ and TkRenderer.__init__ leave
KernelInit ==
  /\ wpc = "boot1"
  /\ running = TRUE
  /\ system_log_lines = <<>>
  /\ app_log_lines = <<>>
  /\ active_app = NoApp
  /\ is_active = [a \in Apps |-> FALSE]
  /\ app_widgets = [a \in Apps |-> <<>>]
  /\ content_start_y = [a \in Apps |-> DefaultStartY]
  /\ files = EmptyDict
  /\ code_buffer = [a \in Apps |-> <<>>]
  /\ user_input = <<>>
  /\ input_queue = <<>>
  /\ current_input = <<>>
  /\ widgets = OwnList
  /\ last_header = <<>>
  /\ last_logs = <<>>
  /\ last_prompt = ""
  /\ last_input = <<>>
  /\ last_start_y = DefaultStartY
  /\ mainloop = TRUE
  /\ submitted = <<>>
  /\ taken = <<>>
  /\ log_message = <<>>
  /\ app_call = [op |-> "none", name |-> ""]
  /\ log_pc = [t \in Threads |-> "idle"]
  /\ log_rest = [t \in Threads |-> <<>>]
  /\ run_left = <<>>
  /\ runs = 0
  /\ w_pc = 0
  /\ w_frame = InitialFrame
  /\ dpc = "prestart"
  /\ d_n = 0
  /\ d_frame = InitialFrame
  /\ cursor_visible = FALSE
  /\ blink_timers = 1
  /\ draws = <<InitialFrame>>
  /\ drawn = InitialFrame
  /\ requested = {InitialFrame}

Init ==
  /\ KernelInit
  /\ llm_response = <<>>
  /\ intent = NoIntent
  /\ renorm = NoRenorm
  /\ ppc = "reply"

Next ==
  \/ Boot \/ LoopTop \/ Poll \/ Route \/ Infer \/ Decode \/ Dispatch
  \/ EndIteration
  \/ OnKeyReturn \/ OnPaste

Spec == Init /\ [][Next]_vars

(***************************************************************************)
(* The render bridge statement by statement: the worker boots and idles in *)
(* kernel_loop, each render_ui call running render_screen one assignment   *)
(* at a time, while the display thread runs _blink_cursor and the queued   *)
(* _draw callbacks.  Nothing is typed.                                     *)
(***************************************************************************)
FrameFields == <<"header", "logs", "prompt", "input", "start_y">>
\* render_last_frame reads last_start_y (line 172) before the rest (line 173)
ReadOrder == <<"start_y", "header", "logs", "prompt", "input">>

Stored(field) ==
  CASE field = "header" -> last_header
    [] field = "logs" -> last_logs
    [] field = "prompt" -> last_prompt
    [] field = "input" -> last_input
    [] OTHER -> last_start_y

\* one assignment of lines 180-184
Store(field, f) ==
  /\ last_header' = IF field = "header" THEN f.header ELSE last_header
  /\ last_logs' = IF field = "logs" THEN f.logs ELSE last_logs
  /\ last_prompt' = IF field = "prompt" THEN f.prompt ELSE last_prompt
  /\ last_input' = IF field = "input" THEN f.input ELSE last_input
  /\ last_start_y' = IF field = "start_y" THEN f.start_y ELSE last_start_y

\* the log lines of one step of boot (lines 133-148) and whether the prompt
\* is shown by the render_ui call that ends it
BootLines(stage, online) ==
  CASE stage = "boot1" -> <<"jaxOS v1.0 Booting...">>
    [] stage = "boot2" -> <<"[*] Init Neural Shim...">>
    [] stage = "boot3" ->
         (IF online THEN <<"[+] Cortex Online.">>
          ELSE <<"[!] Cortex Connection Error", "[-] Cortex Offline.">>)
           \o <<"[*] Mounting VFS...">>
    [] OTHER -> <<"System Ready.">>
NextStage(stage) ==
  CASE stage = "boot1" -> "boot2"
    [] stage = "boot2" -> "boot3"
    [] stage = "boot3" -> "boot4"
    [] OTHER -> "idle"

\* the worker logs a step of boot, or comes round the idle loop (line 271),
\* and enters render_ui: the frame is built (lines 111-122, 128) and
\* render_screen is called
WorkerRenderUi ==
  /\ w_pc = 0
  /\ wpc \in {"boot1", "boot2", "boot3", "boot4", "idle"}
  /\ \E online \in BOOLEAN :
       LET k1 == IF wpc = "idle" THEN KernelState
                 ELSE log(KernelState, BootLines(wpc, online))
           k2 == render_ui(k1, wpc \in {"boot4", "idle"})
       IN /\ system_log_lines' = k2.sys
          /\ w_frame' = k2.frame
          /\ requested' = requested \cup {k2.frame}
  /\ w_pc' = 1
  /\ wpc' = NextStage(wpc)
  /\ UNCHANGED <<hvars, lvars, pvars, rvars, running, app_log_lines, active_app, is_active,
                 app_widgets, content_start_y, files, code_buffer, user_input,
                 dpc, d_n, d_frame, cursor_visible, blink_timers, draws,
                 drawn>>

\* the worker runs one of lines 180-184
WorkerStore ==
  /\ w_pc \in 1..5
  /\ Store(FrameFields[w_pc], w_frame)
  /\ w_pc' = w_pc + 1
  /\ UNCHANGED <<hvars, lvars, pvars, kvars, input_queue, current_input, widgets, mainloop,
                 submitted, w_frame, dpc, d_n, d_frame, cursor_visible,
                 blink_timers, draws, drawn, requested>>

\* self.root.after(0, _draw), line 264: the canvas is left alone and the
\* closure joins the callbacks the event loop has still to run
afterDrawsNow(canvas, pending, f) == [canvas |-> f, pending |-> pending]
after(canvas, pending, f) == [canvas |-> canvas, pending |-> Append(pending, f)]

\* line 264 on the worker: the _draw closure is queued for the event loop
\* (a place is kept for the _draw of a _blink_cursor under way)
WorkerAfter ==
  /\ w_pc = 6
  /\ Len(draws) + (IF dpc = "idle" THEN 0 ELSE 1) < MaxPending
  /\ draws' = after(drawn, draws, w_frame).pending
  /\ drawn' = after(drawn, draws, w_frame).canvas
  /\ w_pc' = 0
  /\ w_frame' = InitialFrame
  /\ UNCHANGED <<hvars, lvars, pvars, kvars, rvars, dpc, d_n, d_frame,
                 cursor_visible, blink_timers, requested>>

\* _blink_cursor begins, lines 87-88 and 171: called by start (line 163)
\* before the main loop, or by a timer of the running main loop
DisplayBlink ==
  /\ \/ dpc = "prestart" /\ UNCHANGED blink_timers
     \/ /\ dpc = "idle"
        /\ blink_timers > 0
        /\ Len(draws) < MaxPending
        /\ blink_timers' = blink_timers - 1
  /\ cursor_visible' = ~cursor_visible
  /\ dpc' = "read"
  /\ d_n' = 1
  /\ UNCHANGED <<hvars, lvars, pvars, kvars, rvars, w_pc, w_frame, d_frame, draws, drawn,
                 requested>>

\* render_last_frame reads one stored field, lines 172-173
DisplayRead ==
  /\ dpc = "read"
  /\ d_frame' = [d_frame EXCEPT ![ReadOrder[d_n]] = Stored(ReadOrder[d_n])]
  /\ IF d_n = 5 THEN dpc' = "store" /\ d_n' = 1
     ELSE dpc' = "read" /\ d_n' = d_n + 1
  /\ UNCHANGED <<hvars, lvars, pvars, kvars, rvars, w_pc, w_frame, cursor_visible,
                 blink_timers, draws, drawn, requested>>

\* render_screen, called by render_last_frame, runs one of lines 180-184
DisplayStore ==
  /\ dpc = "store"
  /\ Store(FrameFields[d_n], d_frame)
  /\ IF d_n = 5 THEN dpc' = "after" /\ d_n' = 0
     ELSE dpc' = "store" /\ d_n' = d_n + 1
  /\ UNCHANGED <<hvars, lvars, pvars, kvars, input_queue, current_input, widgets, mainloop,
                 submitted, w_pc, w_frame, d_frame, cursor_visible,
                 blink_timers, draws, drawn, requested>>

\* line 264 on the display thread, then line 89: the timer is set again
DisplayAfter ==
  /\ dpc = "after"
  /\ draws' = after(drawn, draws, d_frame).pending
  /\ drawn' = after(drawn, draws, d_frame).canvas
  /\ blink_timers' = blink_timers + 1
  /\ dpc' = "idle"
  /\ d_frame' = InitialFrame
  /\ UNCHANGED <<hvars, lvars, pvars, kvars, rvars, w_pc, w_frame, d_n, cursor_visible,
                 requested>>

\* the event loop runs the oldest _draw callback, lines 186-262
DisplayDraw ==
  /\ dpc = "idle"
  /\ draws # <<>>
  /\ drawn' = Head(draws)
  /\ draws' = Tail(draws)
  /\ UNCHANGED <<hvars, lvars, pvars, kvars, rvars, w_pc, w_frame, dpc, d_n, d_frame,
                 cursor_visible, blink_timers, requested>>

InitRender ==
  /\ KernelInit
  /\ llm_response = <<>>
  /\ intent = NoIntent
  /\ renorm = NoRenorm
  /\ ppc = "reply"

NextRender ==
  \/ WorkerRenderUi \/ WorkerStore \/ WorkerAfter
  \/ DisplayBlink \/ DisplayRead \/ DisplayStore \/ DisplayAfter
  \/ DisplayDraw

SpecRender == InitRender /\ [][NextRender]_vars

\* the worker thread runs on: a probe that returns lets boot return, and the
\* statement at the loop top is then executed
WorkerRuns ==
  /\ wpc \in {"boot1", "loop"}
  /\ wpc' \in {"loop", "poll", "done"}

SpecLive == Spec /\ WF_wpc(WorkerRuns)

\* line 276: input_queue.get(timeout=0.1) returns a line or raises
\* queue.Empty when the timeout has passed
PollReturns ==
  /\ wpc = "poll"
  /\ wpc' \in {"loop", "route"}

\* boot and the idle rounds of the loop while the display thread takes keys;
\* the idle phase ends when a line is polled
NextIdle == Boot \/ LoopTop \/ Poll \/ OnKeyReturn \/ OnPaste

SpecIdle ==
  Init /\ [][NextIdle]_vars /\ WF_wpc(WorkerRuns) /\ WF_wpc(PollReturns)

(***************************************************************************)
(* The kernel loop with an app session: no reply of the inference service  *)
(* launches an app, so launch_app is called directly, at the top of the    *)
(* loop before the first line is polled.                                   *)
(***************************************************************************)
SessionApps == {"code_studio", "calculator"}

LaunchCall ==
  /\ wpc = "loop"
  /\ running
  /\ active_app = NoApp
  /\ taken = <<>>
  /\ \E app_name \in SessionApps :
       /\ Len(app_widgets[app_name]) < MaxBatches
       /\ Assign(launch_app(KernelState, app_name))
  /\ UNCHANGED <<hvars, lvars, pvars, bvars, wpc, user_input, input_queue,
                 current_input, submitted>>

NextSession == Next \/ LaunchCall

SpecSession == Init /\ [][NextSession]_vars

(***************************************************************************)
(* launch_app and close_app called directly, in any order, on the state    *)
(* the constructors leave.                                                 *)
(***************************************************************************)
\* names launch_app is called with: the registered ones and one that is not
AppNames == Apps \cup {"notes"}

LaunchApp ==
  /\ \E app_name \in AppNames :
       /\ app_name \in Apps => Len(app_widgets[app_name]) < MaxBatches
       /\ app_name \notin Apps
            => Len(IF active_app # NoApp THEN app_log_lines
                   ELSE system_log_lines) < MaxSessionLines
       /\ Assign(launch_app(KernelState, app_name))
       /\ app_call' = [op |-> "launch_app", name |-> app_name]
  /\ UNCHANGED <<lvars, taken, log_message, pvars, bvars, wpc, user_input,
                 input_queue, current_input, submitted>>

CloseApp ==
  /\ Len(system_log_lines) < MaxSessionLines
  /\ Assign(close_app(KernelState))
  /\ app_call' = [op |-> "close_app", name |-> ""]
  /\ UNCHANGED <<lvars, taken, log_message, pvars, bvars, wpc, user_input,
                 input_queue, current_input, submitted>>

NextApps == LaunchApp \/ CloseApp

SpecApps == Init /\ [][NextApps]_vars

(***************************************************************************)
(* NeuralKernel.log called again and again, in system mode or with an app  *)
(* launched before anything was logged.                                    *)
(***************************************************************************)
\* message.split('\n') of the messages logged: one, two and three lines, and
\* one line more than the buffer holds
LongMessage == [n \in 1..(LogCap + 1) |-> ToString(n)]
Messages == {<<"a">>, <<"b", "c">>, <<"d", "e", "f">>, LongMessage}

LogCall ==
  /\ \E m \in Messages :
       /\ log_message' = m
       /\ Assign(log(KernelState, m))
  /\ UNCHANGED <<lvars, taken, app_call, pvars, bvars, wpc, user_input, input_queue,
                 current_input, submitted>>

StartApp ==
  /\ active_app = NoApp
  /\ system_log_lines = <<>>
  /\ Assign(launch_app(KernelState, "calculator"))
  /\ UNCHANGED <<hvars, lvars, pvars, bvars, wpc, user_input, input_queue,
                 current_input, submitted>>

NextLog == LogCall \/ StartApp

SpecLog == Init /\ [][NextLog]_vars

(***************************************************************************)
(* NeuralKernel.log statement by statement on two threads, with the code   *)
(* studio active: the worker logs the lines it hands to on_input and       *)
(* renders at the top of its loop, the display thread runs run_code when   *)
(* the RUN button is clicked.  The test and the pop of line 106 are one    *)
(* step.                                                                   *)
(***************************************************************************)
\* what a run of the code buffer prints: nothing, or one line more than the
\* log holds
Outputs == {<<"(No Output)">>, LongMessage}
MaxRuns == 1

\* the buffer log writes to, line 99
TargetIsApp == active_app # NoApp

\* an append that also reaches the list the last frame was given
target_appendShared(k, line) ==
  IF k.active # NoApp
  THEN [k EXCEPT !.app = Append(@, line), !.frame.logs = Append(@, line)]
  ELSE [k EXCEPT !.sys = Append(@, line), !.frame.logs = Append(@, line)]

\* target.append(line), line 103: the buffer grows, the copy render_ui made
\* for a frame (lines 115 and 121) is another list
target_append(k, line) ==
  IF k.active # NoApp
  THEN [k EXCEPT !.app = Append(@, line)]
  ELSE [k EXCEPT !.sys = Append(@, line)]

\* target.pop(0), line 107
target_pop(k) ==
  IF k.active # NoApp
  THEN [k EXCEPT !.app = Tail(@)]
  ELSE [k EXCEPT !.sys = Tail(@)]

RaceStart ==
  /\ active_app = NoApp
  /\ Assign(launch_app(KernelState, "code_studio"))
  /\ UNCHANGED <<hvars, lvars, pvars, bvars, wpc, user_input, input_queue,
                 current_input, submitted>>

\* CodeStudio.on_input of a line that is no command, up to its log call
RaceInput ==
  /\ IsCodeStudio(active_app)
  /\ log_pc["worker"] = "idle"
  /\ Len(code_buffer[active_app]) < MaxSessionLines
  /\ LET line == <<"l", "i", "s", "t">>
         k1 == [KernelState EXCEPT !.code_buffer[active_app] = Append(@, line)]
     IN /\ Assign(k1)
        /\ log_rest' = [log_rest EXCEPT !["worker"] =
                          <<" " \o ToString(Len(k1.code_buffer[active_app]))
                              \o ": " \o Str(line)>>]
  /\ log_pc' = [log_pc EXCEPT !["worker"] = "append"]
  /\ UNCHANGED <<hvars, run_left, runs, pvars, bvars, wpc, user_input,
                 input_queue, current_input, submitted>>

\* the RUN button's command: CodeStudio.run_code up to its first log call
RunClick ==
  /\ IsCodeStudio(active_app)
  /\ widgets = active_app
  /\ log_pc["display"] = "idle"
  /\ run_left = <<>>
  /\ runs < MaxRuns
  /\ runs' = runs + 1
  /\ \E output \in Outputs :
       run_left' = <<output, <<"-----------------">>>>
  /\ log_rest' = [log_rest EXCEPT !["display"] = <<"--- EXECUTING ---">>]
  /\ log_pc' = [log_pc EXCEPT !["display"] = "append"]
  /\ Assign(KernelState)
  /\ UNCHANGED <<hvars, pvars, bvars, wpc, user_input, input_queue,
                 current_input, submitted>>

\* run_code's next log call
RunNext ==
  /\ log_pc["display"] = "idle"
  /\ run_left # <<>>
  /\ log_rest' = [log_rest EXCEPT !["display"] = Head(run_left)]
  /\ run_left' = Tail(run_left)
  /\ log_pc' = [log_pc EXCEPT !["display"] = "append"]
  /\ Assign(KernelState)
  /\ UNCHANGED <<hvars, runs, pvars, bvars, wpc, user_input, input_queue,
                 current_input, submitted>>

\* lines 102-103: one append of the loop, or the loop's end
LogAppend(t) ==
  /\ log_pc[t] = "append"
  /\ IF log_rest[t] = <<>>
     THEN /\ log_pc' = [log_pc EXCEPT ![t] = "trim"]
          /\ Assign(KernelState)
          /\ UNCHANGED log_rest
     ELSE /\ Assign(target_append(KernelState, Head(log_rest[t])))
          /\ log_rest' = [log_rest EXCEPT ![t] = Tail(@)]
          /\ UNCHANGED log_pc
  /\ UNCHANGED <<hvars, run_left, runs, pvars, bvars, wpc, user_input,
                 input_queue, current_input, submitted>>

\* lines 106-107: one pop of the loop, or the loop's end
LogTrim(t) ==
  /\ log_pc[t] = "trim"
  /\ IF Len(IF TargetIsApp THEN app_log_lines ELSE system_log_lines) > LogCap
     THEN Assign(target_pop(KernelState)) /\ UNCHANGED log_pc
     ELSE /\ Assign(KernelState)
          /\ log_pc' = [log_pc EXCEPT ![t] = "idle"]
  /\ UNCHANGED <<hvars, log_rest, run_left, runs, pvars, bvars, wpc,
                 user_input, input_queue, current_input, submitted>>

\* kernel_loop lines 268-271: the render_ui at the top of the worker's loop
RaceRender ==
  /\ active_app # NoApp
  /\ log_pc["worker"] = "idle"
  /\ Assign(render_ui(KernelState, TRUE))
  /\ UNCHANGED <<hvars, lvars, pvars, bvars, wpc, user_input, input_queue,
                 current_input, submitted>>

NextRace ==
  \/ RaceStart \/ RaceInput \/ RunClick \/ RunNext \/ RaceRender
  \/ \E t \in Threads : LogAppend(t)
  \/ \E t \in Threads : LogTrim(t)

SpecRace == Init /\ [][NextRace]_vars

(***************************************************************************)
(* The frames on their way to the canvas while run_code logs on the        *)
(* display thread: the worker only renders, each render_ui queuing its     *)
(* _draw callback once the last one has run, and the event loop runs the   *)
(* callbacks between two button commands.                                  *)
(***************************************************************************)
\* render_ui with render_screen's root.after(0, _draw), line 264, one
\* callback waiting at a time
FrameRender ==
  /\ active_app # NoApp
  /\ draws = <<>>
  /\ LET k1 == render_ui(KernelState, TRUE)
     IN /\ Assign(k1)
        /\ draws' = after(drawn, draws, k1.frame).pending
        /\ drawn' = after(drawn, draws, k1.frame).canvas
  /\ UNCHANGED <<hvars, lvars, pvars, wpc, user_input, input_queue,
                 current_input, submitted, w_pc, w_frame, dpc, d_n, d_frame,
                 cursor_visible, blink_timers, requested>>

\* the event loop runs the oldest _draw callback, lines 186-262
FrameDraw ==
  /\ log_pc["display"] = "idle"
  /\ run_left = <<>>
  /\ draws # <<>>
  /\ drawn' = Head(draws)
  /\ draws' = Tail(draws)
  /\ UNCHANGED <<hvars, lvars, pvars, kvars, rvars, w_pc, w_frame, dpc, d_n,
                 d_frame, cursor_visible, blink_timers, requested>>

NextFrame ==
  \/ RaceStart \/ RunClick \/ RunNext \/ FrameRender \/ FrameDraw
  \/ LogAppend("display") \/ LogTrim("display")

SpecFrame == Init /\ [][NextFrame]_vars

(***************************************************************************)
(* Replies the parser is run on.                                           *)
(***************************************************************************)
ParamKeys ==
  {"filename", "path", "file_content", "content", "website", "url", "name"}
ParamStrs == {JStr("x"), JStr("y")}

\* dicts of at most MaxParamKeys keys
SmallDicts ==
  UNION {[K -> ParamStrs] :
           K \in {S \in SUBSET ParamKeys : Cardinality(S) <= MaxParamKeys}}

ActionVals ==
  {JStr("create_file"), JStr("launch_app"), JStr("unknown"),
   JStr("format_disk"), JNum(7), JNull, JList(<<"a">>)}
IntentVals == {JStr("create_file"), JStr("format_disk")}
NonMapParams ==
  {JStr("x"), JStr("filename"), JStr("file_content"),
   JList(<<"filename">>), JList(<<>>), JNum(7), JNull}
FewFields == {EmptyDict, [path |-> JStr("y")], [filename |-> JStr("x")]}

Heads ==
  {EmptyDict}
    \cup {[action |-> a] : a \in ActionVals}
    \cup {[intent |-> i] : i \in IntentVals}
    \cup {[action |-> a, intent |-> i] : a \in ActionVals, i \in IntentVals}

Merge(d, e) ==
  [k \in (DOMAIN d) \cup (DOMAIN e) |-> IF k \in DOMAIN e THEN e[k] ELSE d[k]]

NonObjects ==
  {JNum(7), JNull, JStr("x"), JStr("action"), JStr("intent"),
   JList(<<>>), JList(<<"action">>), JList(<<"intent">>),
   JList(<<"action", "params">>)}

\* a value alone, in a ```json fence, in an untagged fence
Wrapped(v) ==
  {<<Val(v)>>,
   <<Tok("tickjson"), Val(v), Tok("tick")>>,
   <<Tok("tick"), Val(v), Tok("tick")>>}

SampleObject ==
  JMap([action |-> JStr("create_file"), params |-> JMap([path |-> JStr("x")])])

FlatObject ==
  JMap([action |-> JStr("create_file"), path |-> JStr("x")])

Alphabet ==
  {Tok("tick"), Tok("tickjson"), Tok("lb"), Tok("rb"), Tok("prose"),
   Val(SampleObject), Trunc(FlatObject), Val(JNum(7))}

\* the replies parse is run on: every token sequence of at most MaxRawLen
\* tokens; a non-object value; an object without a params field and with
\* top-level fields; an object with a params field (a map or not) and few
\* top-level fields
IsReply(text) ==
  \/ \E n \in 0..MaxRawLen : text \in [1..n -> Alphabet]
  \/ \E v \in NonObjects : text \in Wrapped(v)
  \/ \E h \in Heads, f \in SmallDicts : text \in Wrapped(JMap(Merge(h, f)))
  \/ \E h \in Heads, f \in FewFields,
        p \in {JMap(m) : m \in SmallDicts} \cup NonMapParams :
          text \in Wrapped(JMap(Merge(Put(h, "params", p), f)))

InitParse ==
  /\ IsReply(llm_response)
  /\ intent = NoIntent
  /\ renorm = NoRenorm
  /\ ppc = "reply"
  /\ KernelInit

\* parse(llm_response), lines 42-75
Parse ==
  /\ ppc = "reply"
  /\ intent' = parse(llm_response)
  /\ ppc' = "parsed"
  /\ UNCHANGED <<hvars, lvars, llm_response, renorm, kvars, rvars, bvars>>

\* the dict of line 66
Normalized(text) ==
  LET loaded == JsonLoads(ExtractJson(text))
  IN IF loaded.ok THEN Normalize(loaded.v) ELSE NoRenorm

\* lines 47-65 applied to the dict they produced
Renormalize ==
  /\ ppc = "parsed"
  /\ ~Normalized(llm_response).ret
  /\ renorm' = Normalize(JMap(Normalized(llm_response).d))
  /\ ppc' = "renormalized"
  /\ UNCHANGED <<hvars, lvars, llm_response, intent, kvars, rvars, bvars>>

NextParse == Parse \/ Renormalize

SpecParse == InitParse /\ [][NextParse]_vars

(***************************************************************************)
(* Properties of IntentParser.parse, checked under SpecParse.              *)
(***************************************************************************)
Parsed == ppc # "reply"
Loaded == JsonLoads(ExtractJson(llm_response))
LoadedObject == Loaded.ok /\ Loaded.v.t = "map"

\* C1: the action of every intent parse returns is in the parser's action
\* set (which holds 'unknown'), and a well-formed object whose action is
\* outside the set yields action 'unknown'.
C1_ActionInWhitelist ==
  Parsed =>
    /\ Has(intent, "action")
    /\ intent["action"].t = "str"
    /\ intent["action"].s \in valid_actions
    /\ (LoadedObject /\ Has(Loaded.v.m, "action")
          /\ ~(Loaded.v.m["action"].t = "str"
                /\ Loaded.v.m["action"].s \in valid_actions))
         => intent["action"] = JStr("unknown")

C1_Witness ==
  /\ ppc = "parsed"
  /\ LoadedObject
  /\ Has(Loaded.v.m, "action")
  /\ Loaded.v.m["action"] = JStr("format_disk")
  /\ intent = Unknown("Invalid action: format_disk")

\* C2: parse returns an intent for every reply, and the intent's action is
\* 'unknown' when the extracted text is not a JSON object.
C2_UnparseableIsUnknown ==
  Parsed =>
    /\ Has(intent, "action")
    /\ ~LoadedObject => intent["action"] = JStr("unknown")

C2_Witness ==
  /\ ppc = "parsed"
  /\ llm_response = <<Tok("tick"), Trunc(FlatObject), Tok("tick")>>
  /\ intent = Unknown("Malformed JSON response")

\* C3: every intent with action 'unknown' that parse returns carries a
\* reason string.
C3_UnknownHasReason ==
  (Parsed /\ intent["action"] = JStr("unknown"))
    => (Has(intent, "reason") /\ intent["reason"].t = "str")

\* a fence at i..j of the reply that holds exactly one object with an action
\* of the parser's set and a params field
C5_FencedObject(i, j) ==
  /\ i \in DOMAIN llm_response /\ j \in DOMAIN llm_response
  /\ j = i + 2
  /\ llm_response[i].k \in {"tick", "tickjson"}
  /\ llm_response[j].k \in {"tick", "tickjson"}
  /\ llm_response[i + 1].k = "val"
  /\ llm_response[i + 1].v.t = "map"
  /\ Has(llm_response[i + 1].v.m, "action")
  /\ Has(llm_response[i + 1].v.m, "params")
  /\ llm_response[i + 1].v.m["action"].t = "str"
  /\ llm_response[i + 1].v.m["action"].s \in valid_actions

\* C5 as claimed: a reply that contains a fenced valid object with a
\* whitelisted action A and params P is parsed to action A and params P.
C5_RoundTripUnchanged ==
  Parsed =>
    \A i, j \in DOMAIN llm_response :
      C5_FencedObject(i, j) =>
        /\ intent["action"] = llm_response[i + 1].v.m["action"]
        /\ Has(intent, "params")
        /\ intent["params"] = llm_response[i + 1].v.m["params"]

\* the reply's first fence: from the first ```json marker if the reply has
\* one, else from the first ```, to the next marker
C5_Open ==
  LET n == Len(llm_response)
      J == {i \in 1..n : llm_response[i].k = "tickjson"}
      T == {i \in 1..n : llm_response[i].k \in {"tick", "tickjson"}}
      S == IF J # {} THEN J ELSE T
  IN IF S = {} THEN 0 ELSE CHOOSE i \in S : \A k \in S : i <= k

C5_AliasOf ==
  [path |-> "filename", content |-> "file_content", url |-> "website"]

\* C5, amended: when the reply's first fence holds exactly a valid object
\* with an action A of the parser's set and a params map P, parse returns
\* action A and params that keeps every entry of P and adds only, for each
\* canonical key absent from P whose alias is in P, that key with the
\* alias's value.
C5_RoundTripUpToAliases ==
  (Parsed /\ C5_Open # 0 /\ C5_FencedObject(C5_Open, C5_Open + 2)
     /\ llm_response[C5_Open + 1].v.m["params"].t = "map")
    => LET o == llm_response[C5_Open + 1].v.m
           P == o["params"].m
       IN /\ intent["action"] = o["action"]
          /\ Has(intent, "params")
          /\ intent["params"].t = "map"
          /\ LET R == intent["params"].m
             IN /\ \A k \in DOMAIN P : Has(R, k) /\ R[k] = P[k]
                /\ \A k \in (DOMAIN R) \ (DOMAIN P) :
                     /\ k \in DOMAIN C5_AliasOf
                     /\ Has(P, C5_AliasOf[k])
                     /\ R[k] = P[C5_AliasOf[k]]
                /\ \A k \in DOMAIN C5_AliasOf :
                     Has(P, C5_AliasOf[k]) => Has(R, k)

C5_Witness ==
  /\ ppc = "parsed"
  /\ llm_response =
       <<Tok("tick"),
         Val(JMap([action |-> JStr("create_file"),
                   params |-> JMap([website |-> JStr("x"),
                                    path |-> JStr("y")])])),
         Tok("tick")>>
  /\ intent["params"] =
       JMap([website |-> JStr("x"), path |-> JStr("y"), url |-> JStr("x")])

\* C4: once a line whose reply is a well-formed launch_app object naming a
\* registered app has been processed in system mode, the intent decoded from
\* it has action launch_app and that app is the active app.
C4_LaunchAppSupported ==
  (wpc = "cmd_done"
     /\ llm_response = Command("launch_app", [name |-> JStr("calculator")]))
    => /\ intent["action"] = JStr("launch_app")
       /\ active_app = "calculator"
       /\ is_active["calculator"]

Reply6 ==
  <<Tok("tickjson"),
    Val(JMap([intent |-> JStr("create_file"), filename |-> JStr("x"),
              file_content |-> JStr("y")])),
    Tok("tick")>>

\* C6 as claimed: the json-fenced reply with intent create_file, filename x
\* and file_content y decodes to action create_file and params consisting
\* of path = x and content = y.
C6_ScenarioExact ==
  (Parsed /\ llm_response = Reply6)
    => /\ intent["action"] = JStr("create_file")
       /\ Has(intent, "params")
       /\ intent["params"] = JMap([path |-> JStr("x"), content |-> JStr("y")])

\* C6, amended: that reply decodes to action create_file, taken from the
\* intent field, and to params that holds path = x and content = y beside
\* the reply's own filename = x and file_content = y.
C6_ScenarioWithAliases ==
  (Parsed /\ llm_response = Reply6)
    => /\ intent["action"] = JStr("create_file")
       /\ Has(intent, "params")
       /\ intent["params"] =
            JMap([path |-> JStr("x"), content |-> JStr("y"),
                  filename |-> JStr("x"), file_content |-> JStr("y")])

C6_Witness == ppc = "parsed" /\ llm_response = Reply6

\* C7: every intent parse returns with an action other than 'unknown' has
\* exactly the two fields action and params.
C7_ExactlyTwoFields ==
  (Parsed /\ intent["action"] # JStr("unknown"))
    => DOMAIN intent = {"action", "params"}

\* C8: the normalization of lines 47-65, applied to a dict it has already
\* normalized, yields the same params.
C8_NormalizeIdempotent ==
  ppc = "renormalized" =>
    /\ ~renorm.ret
    /\ renorm.d["params"] = Normalized(llm_response).d["params"]

C8_Witness ==
  /\ ppc = "renormalized"
  /\ LoadedObject
  /\ ~Has(Loaded.v.m, "params")
  /\ Has(Loaded.v.m, "intent")
  /\ Has(Loaded.v.m, "website")
  /\ renorm.d["params"].t = "map"
  /\ Has(renorm.d["params"].m, "url")

\* the params the alias table is applied to: the reply's params field, or
\* the top-level fields other than action and intent
C9_GivenParams ==
  IF Has(Loaded.v.m, "params")
  THEN Loaded.v.m["params"].m
  ELSE [k \in (DOMAIN Loaded.v.m) \ {"action", "intent"} |-> Loaded.v.m[k]]

C9_AliasOf ==
  [path |-> "filename", content |-> "file_content", url |-> "website"]

\* C9: a canonical key (path, content, url) present in params keeps its
\* value, whatever its alias holds; an absent one takes the alias's value
\* if the alias is present and stays absent otherwise.
C9_CanonicalKept ==
  (Parsed /\ LoadedObject /\ Has(intent, "params")
     /\ intent["params"].t = "map")
    => \A c \in DOMAIN C9_AliasOf :
         LET P == C9_GivenParams
             R == intent["params"].m
         IN IF Has(P, c) THEN Has(R, c) /\ R[c] = P[c]
            ELSE IF Has(P, C9_AliasOf[c])
                 THEN Has(R, c) /\ R[c] = P[C9_AliasOf[c]]
                 ELSE ~Has(R, c)

C9_Witness ==
  /\ ppc = "parsed"
  /\ LoadedObject
  /\ Has(intent, "params")
  /\ intent["params"].t = "map"
  /\ Has(C9_GivenParams, "filename")
  /\ Has(C9_GivenParams, "path")
  /\ C9_GivenParams["filename"] = JStr("x")
  /\ C9_GivenParams["path"] = JStr("y")
  /\ intent["params"].m["path"] = JStr("y")

\* C10: every frame the display thread draws has its header, log lines,
\* prompt, input and start position all taken from one render_screen call
\* made by render_ui (or is the frame of the constructor), whether it is
\* drawn for that call or re-drawn by the blink timer's render_last_frame.
C10_NoTornFrame == drawn \in requested

\* C11: a render_screen call of the worker leaves the canvas as it is and adds
\* its frame to the pending draw callbacks; the canvas changes only when the
\* display thread, between callbacks, runs the oldest pending draw.
C11_WorkerOnlyEnqueues ==
  [][/\ (w_pc = 6 /\ w_pc' = 0)
          => drawn' = drawn /\ draws' = Append(draws, w_frame)
     /\ (drawn' # drawn)
          => dpc = "idle" /\ draws # <<>> /\ drawn' = Head(draws)]_vars

\* the worker has returned from the first render_ui of boot and its frame is
\* pending, not drawn
C11_Witness ==
  /\ wpc = "boot2"
  /\ w_pc = 0
  /\ draws # <<>>
  /\ draws[Len(draws)].logs = <<"jaxOS v1.0 Booting...">>
  /\ drawn.logs = <<>>

\* C12: no step of the worker thread inside render_screen changes the stored
\* frame (last header, log, prompt, input, start offset): only the display
\* thread writes it.
C12_WorkerNeverWritesFrame ==
  [][(w_pc' # w_pc)
       => UNCHANGED <<last_header, last_logs, last_prompt, last_input,
                      last_start_y>>]_vars

\* C13: the lines the worker has taken, followed by the lines still queued,
\* are exactly the lines submitted with Return, in submission order: none is
\* lost, repeated or reordered, whatever the worker was doing when a line was
\* submitted; the line being processed is the one taken last.
C13_FifoExactlyOnce ==
  /\ submitted = taken \o input_queue
  /\ wpc \in {"route", "infer", "decode", "dispatch", "cmd_done"}
       => taken # <<>> /\ user_input = taken[Len(taken)]

\* a second line was submitted while the worker was in inference on the
\* first, and waits in the queue
C13_Witness ==
  /\ wpc = "infer"
  /\ Len(taken) = 1
  /\ Len(input_queue) = 1
  /\ input_queue[1] # taken[1]

\* C14: nothing but the InputQueue carries data from the display thread to the
\* worker: as long as no line has been submitted, the input text of the
\* frame the worker last requested at the top of its loop is empty, whatever
\* has been typed or pasted.
C14_OnlyQueueReachesWorker ==
  (wpc = "poll" /\ submitted = <<>>) => last_input = <<>>

\* C15: for a line polled in system mode the worker logs the line, then
\* calls inference, then decodes the reply, then dispatches the intent, then
\* requests a render of the log as dispatch left it, each step starting from
\* the one before; a line is taken from the queue only at the poll, never
\* while a command is in progress.
C15_StepsInOrder ==
  [][/\ (wpc' # wpc /\ wpc' = "infer")
          => /\ wpc = "route"
             /\ \E n \in DOMAIN system_log_lines' :
                  system_log_lines'[n] = "USER@NEURO> " \o Str(user_input)
     /\ (wpc' # wpc /\ wpc' = "decode") => wpc = "infer"
     /\ (wpc' # wpc /\ wpc' = "dispatch")
          => wpc = "decode" /\ intent' = parse(llm_response)
     /\ (wpc' # wpc /\ wpc' = "cmd_done")
          => /\ wpc = "dispatch"
             /\ last_prompt' # ""
             /\ last_logs' = IF active_app' # NoApp THEN app_log_lines'
                             ELSE system_log_lines'
     /\ (taken' # taken) => wpc = "poll"]_vars

\* a command has gone through all its steps while the next line waits in the
\* queue
C15_Witness ==
  /\ wpc = "cmd_done"
  /\ intent["action"] = JStr("list_files")
  /\ Len(taken) = 1
  /\ Len(input_queue) = 1

C17_AtMostOneActive ==
  /\ Cardinality({a \in Apps : is_active[a]}) <= 1
  /\ \A a \in Apps : is_active[a] => active_app = a

\* C18: a launch_app call that replaces the active app A by another app B
\* runs A's on_stop (A is no longer active and its widget list is cleared)
\* and leaves B the one and only active app.
C18_LaunchClosesPrevious ==
  [][(active_app # NoApp /\ active_app' # NoApp /\ active_app' # active_app)
       => /\ ~is_active'[active_app]
          /\ app_widgets'[active_app] = <<>>
          /\ {a \in Apps : is_active'[a]} = {active_app'}]_vars

\* C19: after a log call the target buffer (the app's when an app is active,
\* else the system's) holds the newest lines of the old buffer followed by
\* the message, in their order, and at most 15 of them; the other buffer is
\* not touched.
C19_Target == IF active_app # NoApp THEN app_log_lines ELSE system_log_lines
C19_LogKeepsNewest ==
  [][(active_app' = active_app)
       => LET all == C19_Target \o log_message'
              kept == IF Len(all) < 15 THEN Len(all) ELSE 15
          IN /\ Len(C19_Target') = kept
             /\ \A n \in 1..kept :
                  C19_Target'[n] = all[Len(all) - kept + n]
             /\ active_app # NoApp => system_log_lines' = system_log_lines
             /\ active_app = NoApp => app_log_lines' = app_log_lines]_vars

\* a three-line message has pushed out the first line of a two-line one
C19_Witness ==
  /\ log_message = <<"d", "e", "f">>
  /\ Len(system_log_lines) = 15
  /\ system_log_lines[1] = "c"
  /\ system_log_lines[15] = "f"

C21_DeleteMissing ==
  [][(/\ wpc = "dispatch" /\ wpc' # wpc
      /\ llm_response = Command("delete_file", [path |-> MissingFile]))
       => /\ \A summary \in Summaries :
               ~execute_syscall(KernelState, intent, summary).raised
          /\ files' = files
          /\ system_log_lines'[Len(system_log_lines')]
               = "Error: missing.txt 404"
          /\ last_logs' = system_log_lines'
          /\ wpc' = "cmd_done"]_vars

\* the missing path was deleted while another file was stored
C21_Witness ==
  /\ wpc = "cmd_done"
  /\ llm_response = Command("delete_file", [path |-> MissingFile])
  /\ DOMAIN files = {"a.txt"}
  /\ system_log_lines[Len(system_log_lines)] = "Error: missing.txt 404"

\* C22: a non-blank line polled while an app is active goes to that app's
\* on_input (a code studio line that is no command is appended to the code
\* buffer and echoed in the app log, an exit word closes the app) and the
\* worker returns to the top of the loop: no inference reply, no decoded
\* intent, no stored file and no dispatch or thinking line comes of it.
C22_CommandWords ==
  {<<"R", "U", "N">>, <<"E", "X", "I", "T">>, <<"C", "L", "E", "A", "R">>}
C23_ShutdownIsTerminal ==
  [][/\ (wpc = "route" /\ wpc' # wpc /\ active_app = NoApp
           /\ Lower(user_input) \in ExitWords)
          => /\ wpc' = "done"
             /\ ~running'
             /\ ~mainloop'
             /\ system_log_lines'[Len(system_log_lines')] = "Shutting down..."
             /\ UNCHANGED <<llm_response, intent, files>>
     /\ wpc = "done" => UNCHANGED vars]_vars

\* the worker has left the loop on QUIT with a second line still queued
C23_Witness ==
  /\ wpc = "done"
  /\ ~running
  /\ ~mainloop
  /\ taken = <<<<"Q", "U", "I", "T">>>>
  /\ input_queue = <<<<"l", "i", "s", "t">>>>
  /\ llm_response = <<>>

C25_Degraded == {EmptyObjectText, NonText(JNum(5))}
C25_FailureDegrades ==
  [][(wpc = "dispatch" /\ wpc' # wpc /\ llm_response \in C25_Degraded)
       => /\ intent.action = JStr("unknown")
          /\ \A summary \in Summaries :
               ~execute_syscall(KernelState, intent, summary).raised
          /\ wpc' = "cmd_done"
          /\ UNCHANGED <<files, active_app, is_active, app_widgets, widgets,
                         app_log_lines>>
          /\ system_log_lines'[Len(system_log_lines')] = "Unknown Intent"]_vars

\* a failed call has been logged and dispatched as unknown
C25_Witness ==
  /\ wpc = "cmd_done"
  /\ llm_response = EmptyObjectText
  /\ intent = Unknown("Missing 'action' field")
  /\ \E n \in DOMAIN system_log_lines :
       system_log_lines[n] = "[!] Inference Error"
  /\ system_log_lines[Len(system_log_lines)] = "Unknown Intent"

\* C26: execute_syscall returns normally for every intent the parser
\* produces: whatever intent the worker is about to dispatch, and whatever
\* the page summary is, the call raises nothing.
C26_DispatchNeverRaises ==
  wpc = "dispatch"
    => \A summary \in Summaries :
         ~execute_syscall(KernelState, intent, summary).raised

\* C27: dispatching an unknown intent puts the intent's stored reason,
\* verbatim, in the system log, and leaves the stored files, the active app
\* and the widget list as they were.
C27_UnknownLogsReason ==
  [][(wpc = "dispatch" /\ wpc' # wpc /\ Has(intent, "action")
        /\ intent.action = JStr("unknown") /\ Has(intent, "reason"))
       => /\ \E n \in DOMAIN system_log_lines' :
               /\ n > Len(system_log_lines)
               /\ system_log_lines'[n] = PyStr(intent.reason)
          /\ UNCHANGED <<files, active_app, widgets>>]_vars

\* C28: read_file reports not-found only for a path that is absent: when
\* read_file of a path has been dispatched while a row a create_file wrote
\* for that path is in the store, the log does not end with the not-found
\* line for it but with the "Read <path>" line and the content.
C28_StoredIsNeverAbsent ==
  (/\ wpc = "cmd_done"
   /\ llm_response = Command("read_file", [path |-> SampleFile])
   /\ PyStr(SampleFile) \in DOMAIN files)
    => /\ system_log_lines[Len(system_log_lines)] # "Error: a.txt 404"
       /\ \E n \in DOMAIN system_log_lines :
            system_log_lines[n] = "Read a.txt"

\* C29 as stated: a launch_app call with an unregistered name leaves the
\* active app, the app flags, the app log buffer and the published widget
\* list as they were.
C29_UnregisteredChangesNothing ==
  [][(app_call'.op = "launch_app" /\ app_call'.name \notin Apps)
       => UNCHANGED <<active_app, is_active, app_widgets, app_log_lines,
                      widgets>>]_vars

\* C29: a launch_app call with an unregistered name appends the line
\* "App '<name>' not found." to the buffer log writes to (the app log when
\* an app is active, the system log otherwise), leaves the other buffer, the
\* active app, the app flags, the widget lists and the published list as
\* they were, runs no start hook and requests no frame.
C29_UnregisteredOnlyLogs ==
  [][(app_call'.op = "launch_app" /\ app_call'.name \notin Apps)
       => LET line == "App '" \o app_call'.name \o "' not found."
          IN /\ UNCHANGED <<active_app, is_active, app_widgets,
                            content_start_y, code_buffer, widgets, files,
                            last_header, last_logs, last_prompt,
                            last_start_y>>
             /\ IF active_app # NoApp
                THEN /\ app_log_lines' = Trim(Append(app_log_lines, line))
                     /\ system_log_lines' = system_log_lines
                ELSE /\ system_log_lines'
                          = Trim(Append(system_log_lines, line))
                     /\ app_log_lines' = app_log_lines]_vars

\* the unregistered name was launched while the calculator was active
C29_Witness ==
  /\ app_call = [op |-> "launch_app", name |-> "notes"]
  /\ active_app = "calculator"
  /\ is_active["calculator"]
  /\ app_log_lines = <<"App 'notes' not found.">>
  /\ system_log_lines = <<>>

\* C30: a launch_app call with a registered name empties the app log, makes
\* that app the active one, runs its start hook once (the flag is set, one
\* batch of widgets is appended to the app's list, the content offset is the
\* class's), publishes the app's list and then requests the app frame: the
\* app's header, the empty app log, the prompt and the offset the start
\* hook set; the system log is not touched.
C30_RegisteredLaunch ==
  [][(app_call'.op = "launch_app" /\ app_call'.name \in Apps)
       => LET a == app_call'.name
          IN /\ app_log_lines' = <<>>
             /\ active_app' = a
             /\ is_active'[a]
             /\ app_widgets'[a] = app_widgets[a] \o Batch(a)
             /\ \A b \in Apps \ {a} : app_widgets'[b] = app_widgets[b]
             /\ content_start_y'[a]
                  = (IF IsCodeStudio(a) THEN CodeStudioStartY
                     ELSE CalculatorStartY)
             /\ widgets' = a
             /\ last_header' = <<"--- " \o ClassName(a) \o " ---">>
             /\ last_logs' = <<>>
             /\ last_prompt' = "CODE> "
             /\ last_start_y' = content_start_y'[a]
             /\ system_log_lines' = system_log_lines]_vars

\* the code studio was launched after an unregistered name was refused
C30_Witness ==
  /\ app_call = [op |-> "launch_app", name |-> "code_studio"]
  /\ active_app = "code_studio"
  /\ is_active["code_studio"]
  /\ app_widgets["code_studio"] = Batch("code_studio")
  /\ widgets = "code_studio"
  /\ last_start_y = CodeStudioStartY
  /\ app_log_lines = <<>>
  /\ system_log_lines = <<"App 'notes' not found.">>

\* C31: a close_app call with an app active runs that app's stop hook (its
\* flag is cleared and its widget list emptied), leaves no app active and
\* the renderer with an empty list of its own, appends "App closed." to the
\* system log and not to the app log, and requests the system frame with
\* the prompt; a close_app call with no app active changes nothing.
C31_CloseApp ==
  [][(app_call'.op = "close_app")
       => IF active_app # NoApp
          THEN /\ ~is_active'[active_app]
               /\ app_widgets'[active_app] = <<>>
               /\ \A b \in Apps \ {active_app} :
                    /\ is_active'[b] = is_active[b]
                    /\ app_widgets'[b] = app_widgets[b]
               /\ active_app' = NoApp
               /\ widgets' = OwnList
               /\ system_log_lines'
                    = Trim(Append(system_log_lines, "App closed."))
               /\ app_log_lines' = app_log_lines
               /\ last_header' = <<"jaxOS v1.0", "--------------">>
               /\ last_logs' = system_log_lines'
               /\ last_prompt' = "USER@NEURO> "
               /\ last_start_y' = DefaultStartY
          ELSE UNCHANGED <<kvars, rvars>>]_vars

\* the calculator was launched and closed
C31_Witness ==
  /\ app_call.op = "close_app"
  /\ active_app = NoApp
  /\ \A a \in Apps : ~is_active[a] /\ app_widgets[a] = <<>>
  /\ content_start_y["calculator"] = CalculatorStartY
  /\ widgets = OwnList
  /\ system_log_lines = <<"App closed.">>
  /\ last_logs = <<"App closed.">>

\* C32: once a command line has been processed in system mode (the worker
\* has dispatched the intent decoded for it), no "Thinking..." line is left
\* in the system log, whether inference answered or failed.
C32_PlaceholderGone ==
  wpc = "cmd_done"
    => \A n \in DOMAIN system_log_lines : system_log_lines[n] # "Thinking..."

\* C33: every frame handed to the renderer carries at most 15 log lines,
\* however the log calls of the worker and of the display thread's button
\* callback interleave with the worker's render requests.
C33_FrameWithinCap == Len(last_logs) <= LogCap

\* C37: the log lines of a frame are the lines the buffer held when
\* render_ui was called: a step that appends to the buffer or evicts from
\* it leaves the stored frame, the queued draw callbacks and the canvas as
\* they were; a render request stores and queues the buffer of that moment;
\* and the canvas only ever takes the frame of the oldest queued callback.
C37_Buffer == IF active_app # NoApp THEN app_log_lines ELSE system_log_lines

C37_FrameIsSnapshot ==
  [][/\ (C37_Buffer' # C37_Buffer /\ active_app' = active_app)
          => /\ last_logs' = last_logs
             /\ draws' = draws
             /\ drawn' = drawn
     /\ last_logs' # last_logs => last_logs' = C37_Buffer'
     /\ Len(draws') > Len(draws)
          => /\ C37_Buffer' = C37_Buffer
             /\ last_logs' = C37_Buffer
             /\ SubSeq(draws', 1, Len(draws)) = draws
             /\ draws'[Len(draws')].logs = C37_Buffer
     /\ drawn' # drawn
          => /\ draws # <<>>
             /\ drawn' = Head(draws)
             /\ draws' = Tail(draws)]_vars

C37_Witness ==
  /\ drawn.logs # <<>>
  /\ Len(app_log_lines) = LogCap
  /\ Head(app_log_lines) # Head(drawn.logs)
  /\ last_logs = drawn.logs
  /\ draws = <<>>

\* C34: when the reply object has no params field, the params parse
\* returns hold every top-level field other than action and intent with its
\* value, and nothing else but a canonical key the alias lines filled from
\* one of those fields; when the reply has a params map, the params returned
\* hold that map's entries and nothing else but a canonical key filled from
\* an alias inside that map: no top-level field gets into it.
C34_Source ==
  IF Has(Loaded.v.m, "params") THEN Loaded.v.m["params"].m
  ELSE [k \in (DOMAIN Loaded.v.m) \ {"action", "intent"} |-> Loaded.v.m[k]]
C34_ParamsFromTopLevel ==
  (Parsed /\ LoadedObject /\ Has(intent, "params")
     /\ intent["params"].t = "map")
    => LET P == C34_Source
           R == intent["params"].m
       IN /\ \A k \in DOMAIN P : Has(R, k) /\ R[k] = P[k]
          /\ \A k \in (DOMAIN R) \ (DOMAIN P) :
               /\ k \in DOMAIN C9_AliasOf
               /\ Has(P, C9_AliasOf[k])
               /\ R[k] = P[C9_AliasOf[k]]

\* a reply with intent and two more top-level fields and no params
C34_Witness ==
  /\ ppc = "parsed"
  /\ LoadedObject
  /\ Loaded.v.m = [intent |-> JStr("create_file"), filename |-> JStr("x"),
                    name |-> JStr("y")]
  /\ intent["params"]
       = JMap([filename |-> JStr("x"), name |-> JStr("y"), path |-> JStr("x")])

\* C35: from the construction of the renderer on, through start() and while
\* the event loop runs, at most one _blink_cursor callback is pending.
C35_OneBlinkPending == blink_timers <= 1

\* C36: a poll of the empty queue ends with the worker back at the top of
\* its loop, every pass through the top of the loop while the kernel runs
\* requests the frame of the moment (the log, the prompt, the text typed so
\* far) before it polls, and if from some time on the kernel runs between
\* loop top and poll with the queue empty, the worker is at the loop top,
\* about to request a frame, again and again.
C36_Idle ==
  /\ running
  /\ wpc \in {"loop", "poll"}
  /\ input_queue = <<>>
C36_IdleKeepsRendering ==
  /\ [][/\ (wpc = "poll" /\ input_queue = <<>> /\ wpc' # wpc)
             => wpc' = "loop" /\ UNCHANGED <<user_input, rvars, hvars, pvars>>
        /\ (wpc = "loop" /\ running /\ wpc' # wpc)
             => /\ wpc' = "poll"
                /\ last_logs' = (IF active_app # NoApp THEN app_log_lines
                                  ELSE system_log_lines)
                /\ last_prompt' = (IF active_app # NoApp THEN "CODE> "
                                    ELSE "USER@NEURO> ")
                /\ last_input' = current_input]_vars
  /\ <>[]C36_Idle => ([]<>(wpc = "loop") /\ []<>(wpc = "poll"))

\* the idle worker has requested a frame with text typed but not submitted
C36_Witness ==
  /\ wpc = "poll"
  /\ running
  /\ input_queue = <<>>
  /\ taken = <<>>
  /\ current_input = <<"l", "i", "s", "t">>
  /\ last_input = current_input
  /\ last_prompt = "USER@NEURO> "

\* C38: after any sequence of launch_app and close_app calls the renderer's
\* widget list is empty when no app is active, and otherwise is the active
\* app's list holding the widgets of exactly one build_ui.
C38_WidgetsOfOneStart ==
  /\ active_app = NoApp => widgets = OwnList
  /\ active_app # NoApp
       => /\ widgets = active_app
          /\ app_widgets[active_app] = Batch(active_app)

\* C39: a line that is exit, quit or shutdown, polled while an app is
\* active, goes to the app's input handler and the worker returns to the top
\* of its loop with the running flag set and the event loop running: exit
\* closes the app, the code studio takes the other two as lines of code and
\* the calculator drops them.  The running flag is cleared, the event loop
\* stopped and the loop left only by a step taken in system mode.
C39_AppKeepsRunning ==
  [][/\ (wpc = "route" /\ wpc' # wpc /\ active_app # NoApp
           /\ Lower(user_input) \in ExitWords)
          => /\ wpc' = "loop"
             /\ running /\ running'
             /\ mainloop /\ mainloop'
             /\ IF Lower(user_input) = <<"e", "x", "i", "t">>
                THEN /\ active_app' = NoApp
                     /\ system_log_lines'[Len(system_log_lines')]
                          = "App closed."
                ELSE /\ active_app' = active_app
                     /\ UNCHANGED system_log_lines
                     /\ IF IsCodeStudio(active_app)
                        THEN code_buffer'[active_app]
                               = Append(code_buffer[active_app], user_input)
                        ELSE UNCHANGED <<code_buffer, app_log_lines>>
     /\ ((running /\ ~running') \/ (mainloop /\ ~mainloop')
           \/ (wpc # "done" /\ wpc' = "done"))
          => active_app = NoApp]_vars

\* the code studio has taken QUIT as a line of code and the session goes on
C39_Witness ==
  /\ wpc = "loop"
  /\ running
  /\ mainloop
  /\ active_app = "code_studio"
  /\ taken = <<<<"Q", "U", "I", "T">>>>
  /\ code_buffer["code_studio"] = <<<<"Q", "U", "I", "T">>>>

====
